---- MODULE Spec2Model ----
(***************************************************************************)
(* State-machine model of metrics2mqtt/metrics.py: the four metric         *)
(* variants (CPUMetrics, VirtualMemoryMetrics, DiskUsageMetrics,           *)
(* NetworkMetrics), their poll methods, the two background thread classes  *)
(* (CPUMetricThread, NetworkMetricThread) and the result queue they push   *)
(* the metric object onto.                                                 *)
(*                                                                         *)
(* Encoding of values:                                                     *)
(*   - a one-decimal string "4.8" is the integer 48 (tenths); the string   *)
(*     "nan" is the sentinel NaN;                                          *)
(*   - a float rate is the exact rational [num, den], or undefined (the    *)
(*     numpy mean of an empty array); the doubles of the program carry the *)
(*     same value up to an error far below the tenth the formatting keeps, *)
(*     except on exact ties, which need a number of deltas divisible by 4; *)
(*   - polled_result is None or a record with "state" and "attrs".         *)
(***************************************************************************)
EXTENDS Integers, Sequences, FiniteSets, TLC

\* ---------------------------------------------------------------- bounds
\* threads the polls of one behaviour may start
MaxUnits == 2
\* SpecRate: the largest configured interval, the largest counter (in steps)
MaxRateInterval == 3
MaxRateCounter == 2
\* bytes per counter step
CounterStep == 30

\* ------------------------------------------------------------- constants
NaN == -1
KbitDivisor == 125

Metrics == {"cpu", "vm", "disk", "net"}
AsyncMetrics == {"cpu", "net"}
SyncMetrics == {"vm", "disk"}
Units == 1..MaxUnits

\* Spec, SpecShutdown: the intervals a NetworkMetrics is configured with and
\* the <<bytes_sent, bytes_recv>> pairs an OS snapshot can show for the nic
Intervals == {1, 2}
Snapshots == {<<0, CounterStep>>, <<CounterStep, 0>>}
RateCounters == {CounterStep * i : i \in 0..MaxRateCounter}
RateSnapshots == RateCounters \X RateCounters
\* percentages (in tenths) the OS can report: idle CPU; used memory, used disk
Percents == {0, 423}
UsedPercents == {423}

None == [kind |-> "None"]

VARIABLES
    polled_result,   \* BaseMetric.polled_result, per metric object
    interval,        \* NetworkMetrics.interval
    result_queue,    \* the queue.Queue handed to poll: metric objects, FIFO
    units,           \* the threads started by poll, with the locals of run()
    lastPoll,        \* per metric: what the last poll call did and returned
    pushed,          \* per queue item: the Reading its unit computed
    shutdown         \* the process-level shutdown signal has been raised

vars == <<polled_result, interval, result_queue, units, lastPoll, pushed, shutdown>>

\* ------------------------------------------------------- pure functions

RECURSIVE SumSeq(_)
SumSeq(s) == IF s = <<>> THEN 0 ELSE Head(s) + SumSeq(Tail(s))

\* numpy.diff of a 1-d array: a[1:] - a[:-1]; empty for fewer than 2 items
diff(a) == [i \in 1..(IF Len(a) = 0 THEN 0 ELSE Len(a) - 1) |-> a[i + 1] - a[i]]

\* average dividing by the number of samples instead of the number of deltas
average_PerSample(d) ==
    IF Len(d) = 0 THEN [nan |-> TRUE, num |-> 0, den |-> 1]
    ELSE [nan |-> FALSE, num |-> SumSeq(d), den |-> Len(d) + 1]

\* numpy.average of a 1-d array: sum / size; nan (with a warning) when empty
average(d) ==
    IF Len(d) = 0 THEN [nan |-> TRUE, num |-> 0, den |-> 1]
    ELSE [nan |-> FALSE, num |-> SumSeq(d), den |-> Len(d)]

\* q / 125.0
ToKbit(q) == [nan |-> q.nan, num |-> q.num, den |-> q.den * KbitDivisor]

\* tx_rate + rx_rate
AddRate(p, q) ==
    [nan |-> p.nan \/ q.nan,
     num |-> p.num * q.den + q.num * p.den,
     den |-> p.den * q.den]

\* "{:.1f}".format(q): the nearest tenth, ties to even; "nan" for a nan
Format1(q) ==
    IF q.nan THEN NaN
    ELSE LET n == 10 * q.num
             f == n \div q.den
             r == n % q.den
         IN  IF 2 * r > q.den THEN f + 1
             ELSE IF 2 * r < q.den THEN f
             ELSE IF f % 2 = 0 THEN f ELSE f + 1

\* lines 165-179 of NetworkMetricThread.run: the Reading r
NetReading(tx_bytes, rx_bytes, nic) ==
    LET tx_rate == ToKbit(average(diff(tx_bytes)))
        rx_rate == ToKbit(average(diff(rx_bytes)))
    IN  [kind |-> "Reading",
         state |-> Format1(AddRate(tx_rate, rx_rate)),
         attrs |-> [bytes_sent |-> nic.bytes_sent,
                    bytes_recv |-> nic.bytes_recv,
                    tx_rate |-> Format1(tx_rate),
                    rx_rate |-> Format1(rx_rate)]]

\* the Reading of the percentage metrics: "{:.1f}".format(x.percent)
PercentReading(p) ==
    [kind |-> "Reading", state |-> p, attrs |-> [percent |-> p]]

\* CPUMetricThread.run: "{:.1f}".format(100.0 - cpu_times.idle)
CPUReading(idle) ==
    [kind |-> "Reading", state |-> 1000 - idle, attrs |-> [idle |-> idle]]

\* ------------------------------------------------------------ the state

NoNic == [present |-> FALSE, bytes_sent |-> 0, bytes_recv |-> 0]

\* a thread object that poll has not created yet
Unborn ==
    [metric |-> "none", pc |-> "unborn", x |-> 0,
     tx_bytes |-> <<>>, rx_bytes |-> <<>>,
     prev_tx |-> 0, prev_rx |-> 0, base_tx |-> 0, base_rx |-> 0,
     nics |-> NoNic, r |-> None,
     raw_tx |-> <<>>, raw_rx |-> <<>>, absent |-> 0, pushes |-> 0, signalled |-> FALSE]

\* ret: the value poll returned ("raised": an exception left poll instead);
\* populated: polled_result was not None when poll returned; assigned: this
\* call assigned polled_result; spawned: the thread this call started;
\* failed: the OS query of this call failed
NoPoll ==
    [ret |-> "none", populated |-> FALSE, assigned |-> FALSE,
     spawned |-> 0, failed |-> FALSE]

Init ==
    /\ polled_result = [m \in Metrics |-> None]
    /\ interval \in Intervals
    /\ result_queue = <<>>
    /\ units = [u \in Units |-> Unborn]
    /\ lastPoll = [m \in Metrics |-> NoPoll]
    /\ pushed = <<>>
    /\ shutdown = FALSE

Running(u) == units[u].pc \in {"loop", "measure", "put"}
Ended(u) == units[u].pc \in {"done", "crashed"}

\* ---------------------------------------------------------------- polls

\* PollVM that also hands the metric to the queue, as the threads do
PollVM_Puts ==
    /\ \E p \in UsedPercents :
          /\ polled_result' = [polled_result EXCEPT !["vm"] = PercentReading(p)]
          /\ lastPoll' = [lastPoll EXCEPT !["vm"] =
                [ret |-> "False", populated |-> polled_result'["vm"] # None,
                 assigned |-> TRUE, spawned |-> 0, failed |-> FALSE]]
          /\ result_queue' = Append(result_queue, "vm")
          /\ pushed' = Append(pushed, PercentReading(p))
    /\ UNCHANGED <<interval, units, shutdown>>

\* VirtualMemoryMetrics.poll
PollVM ==
    /\ \E p \in UsedPercents :
          /\ polled_result' = [polled_result EXCEPT !["vm"] = PercentReading(p)]
          /\ lastPoll' = [lastPoll EXCEPT !["vm"] =
                [ret |-> "False", populated |-> polled_result'["vm"] # None,
                 assigned |-> TRUE, spawned |-> 0, failed |-> FALSE]]
    /\ UNCHANGED <<interval, result_queue, units, pushed, shutdown>>

\* PollDiskOk with the return value of the asynchronous variants
PollDiskOk_ReturnsTrue(p) ==
    /\ polled_result' = [polled_result EXCEPT !["disk"] = PercentReading(p)]
    /\ lastPoll' = [lastPoll EXCEPT !["disk"] =
          [ret |-> "True", populated |-> polled_result'["disk"] # None,
           assigned |-> TRUE, spawned |-> 0, failed |-> FALSE]]

\* DiskUsageMetrics.poll on a mount point the OS knows
PollDiskOk(p) ==
    /\ polled_result' = [polled_result EXCEPT !["disk"] = PercentReading(p)]
    /\ lastPoll' = [lastPoll EXCEPT !["disk"] =
          [ret |-> "False", populated |-> polled_result'["disk"] # None,
           assigned |-> TRUE, spawned |-> 0, failed |-> FALSE]]

\* DiskUsageMetrics.poll when psutil.disk_usage raises (no such path):
\* the exception leaves poll, polled_result is not assigned
PollDiskRaise ==
    /\ polled_result' = polled_result
    /\ lastPoll' = [lastPoll EXCEPT !["disk"] =
          [ret |-> "raised", populated |-> polled_result["disk"] # None,
           assigned |-> FALSE, spawned |-> 0, failed |-> TRUE]]

PollDisk ==
    /\ \/ \E p \in UsedPercents : PollDiskOk(p)
       \/ PollDiskRaise
    /\ UNCHANGED <<interval, result_queue, units, pushed, shutdown>>

\* Started with a previous raw value kept from before the run
Started_Keeps(m) ==
    [Unborn EXCEPT !.metric = m,
                   !.pc = IF m = "net" THEN "loop" ELSE "measure",
                   !.prev_tx = CounterStep + 1,
                   !.prev_rx = CounterStep + 1]

\* the thread started by an asynchronous poll, at the top of run(): x = 0,
\* empty sample lists, prev and base at 0 (the snapshot of line 147 is
\* replaced by the first loop pass before anything reads it, interval >= 1)
Started(m) ==
    [Unborn EXCEPT !.metric = m,
                   !.pc = IF m = "net" THEN "loop" ELSE "measure"]

\* CPUMetrics.poll / NetworkMetrics.poll: start a thread, return True
PollAsync(m, slots) ==
    /\ \E u \in slots :
          /\ units[u].pc = "unborn"
          /\ \A v \in slots : v < u => units[v].pc # "unborn"
          /\ units' = [units EXCEPT ![u] = Started(m)]
          /\ lastPoll' = [lastPoll EXCEPT ![m] =
                [ret |-> "True", populated |-> polled_result[m] # None,
                 assigned |-> FALSE, spawned |-> u, failed |-> FALSE]]
    /\ UNCHANGED <<polled_result, interval, result_queue, pushed, shutdown>>

PollCPU == PollAsync("cpu", Units)
PollNet == PollAsync("net", Units)

\* ---------------------------------------------------- CPUMetricThread.run

\* cpu_times_percent(interval) returns after its blocking window;
\* polled_result is assigned
CPUMeasure(u) ==
    /\ units[u].pc = "measure"
    /\ \E idle \in Percents :
          LET r == CPUReading(idle) IN
          /\ units' = [units EXCEPT ![u].r = r, ![u].pc = "put"]
          /\ polled_result' = [polled_result EXCEPT ![units[u].metric] = r]
    /\ UNCHANGED <<interval, result_queue, lastPoll, pushed, shutdown>>

\* result_queue.put(self.metric), the last statement of both run methods
Put(u) ==
    /\ units[u].pc = "put"
    /\ result_queue' = Append(result_queue, units[u].metric)
    /\ pushed' = Append(pushed, units[u].r)
    /\ units' = [units EXCEPT ![u].pc = "done", ![u].pushes = @ + 1]
    /\ UNCHANGED <<polled_result, interval, lastPoll, shutdown>>

\* ------------------------------------------------ NetworkMetricThread.run

\* SampleNic without the rollover branches: the bases never grow
SampleNic_NoBase(t, tx, rx) ==
    [t EXCEPT !.tx_bytes = Append(@, t.base_tx + tx),
              !.rx_bytes = Append(@, t.base_rx + rx),
              !.prev_tx = tx,
              !.prev_rx = rx,
              !.raw_tx = Append(@, tx),
              !.raw_rx = Append(@, rx),
              !.nics = [present |-> TRUE, bytes_sent |-> tx, bytes_recv |-> rx],
              !.x = @ + 1]

\* SampleNic adding the new sample, not the previous one, to the base
SampleNic_BaseAddsNew(t, tx, rx) ==
    LET base_tx == IF tx < t.prev_tx THEN t.base_tx + tx ELSE t.base_tx
        base_rx == IF rx < t.prev_rx THEN t.base_rx + rx ELSE t.base_rx
    IN  [t EXCEPT !.base_tx = base_tx,
                  !.base_rx = base_rx,
                  !.tx_bytes = Append(@, base_tx + tx),
                  !.rx_bytes = Append(@, base_rx + rx),
                  !.prev_tx = tx,
                  !.prev_rx = rx,
                  !.raw_tx = Append(@, tx),
                  !.raw_rx = Append(@, rx),
                  !.nics = [present |-> TRUE, bytes_sent |-> tx, bytes_recv |-> rx],
                  !.x = @ + 1]

\* SampleNic whose rx branch tests the tx counter
SampleNic_SharedTest(t, tx, rx) ==
    LET base_tx == IF tx < t.prev_tx THEN t.base_tx + t.prev_tx ELSE t.base_tx
        base_rx == IF tx < t.prev_tx THEN t.base_rx + t.prev_rx ELSE t.base_rx
    IN  [t EXCEPT !.base_tx = base_tx,
                  !.base_rx = base_rx,
                  !.tx_bytes = Append(@, base_tx + tx),
                  !.rx_bytes = Append(@, base_rx + rx),
                  !.prev_tx = tx,
                  !.prev_rx = rx,
                  !.raw_tx = Append(@, tx),
                  !.raw_rx = Append(@, rx),
                  !.nics = [present |-> TRUE, bytes_sent |-> tx, bytes_recv |-> rx],
                  !.x = @ + 1]

\* one iteration of the while loop with the nic in the snapshot
SampleNic(t, tx, rx) ==
    LET base_tx == IF tx < t.prev_tx THEN t.base_tx + t.prev_tx ELSE t.base_tx
        base_rx == IF rx < t.prev_rx THEN t.base_rx + t.prev_rx ELSE t.base_rx
    IN  [t EXCEPT !.base_tx = base_tx,
                  !.base_rx = base_rx,
                  !.tx_bytes = Append(@, base_tx + tx),
                  !.rx_bytes = Append(@, base_rx + rx),
                  !.prev_tx = tx,
                  !.prev_rx = rx,
                  !.raw_tx = Append(@, tx),
                  !.raw_rx = Append(@, rx),
                  !.nics = [present |-> TRUE, bytes_sent |-> tx, bytes_recv |-> rx],
                  !.x = @ + 1]

\* SkipNic recording a zero sample for the missing second
SkipNic_ZeroFill(t) ==
    [t EXCEPT !.nics = NoNic, !.absent = @ + 1, !.x = @ + 1,
              !.tx_bytes = Append(@, t.base_tx), !.rx_bytes = Append(@, t.base_rx)]

\* one iteration of the while loop with the nic missing from the snapshot
SkipNic(t) == [t EXCEPT !.nics = NoNic, !.absent = @ + 1, !.x = @ + 1]

\* NetStep with the loop condition x <= interval
NetStep_OffByOne(u, snaps) ==
    /\ units[u].pc = "loop"
    /\ units[u].x <= interval
    /\ \/ \E s \in snaps :
             units' = [units EXCEPT ![u] = [SampleNic(@, s[1], s[2])
                                              EXCEPT !.signalled = @ \/ shutdown]]
       \/ units' = [units EXCEPT ![u] = [SkipNic(@)
                                              EXCEPT !.signalled = @ \/ shutdown]]
    /\ UNCHANGED <<polled_result, interval, result_queue, lastPoll, pushed, shutdown>>

\* one pass of the loop body: OS read, bookkeeping, time.sleep(1), x += 1
\* (signalled: the pass happened with the shutdown signal already raised)
NetStep(u, snaps) ==
    /\ units[u].pc = "loop"
    /\ units[u].x < interval
    /\ \/ \E s \in snaps :
             units' = [units EXCEPT ![u] = [SampleNic(@, s[1], s[2])
                                              EXCEPT !.signalled = @ \/ shutdown]]
       \/ units' = [units EXCEPT ![u] = [SkipNic(@)
                                              EXCEPT !.signalled = @ \/ shutdown]]
    /\ UNCHANGED <<polled_result, interval, result_queue, lastPoll, pushed, shutdown>>

\* NetFinish that never stores the Reading on the metric object
NetFinish_NoAssign(u) ==
    /\ units[u].pc = "loop"
    /\ units[u].x >= interval
    /\ IF units[u].nics.present
       THEN LET r == NetReading(units[u].tx_bytes, units[u].rx_bytes, units[u].nics) IN
            /\ units' = [units EXCEPT ![u].r = r, ![u].pc = "put"]
            /\ polled_result' = polled_result
       ELSE /\ units' = [units EXCEPT ![u].pc = "crashed"]
            /\ polled_result' = polled_result
    /\ UNCHANGED <<interval, result_queue, lastPoll, pushed, shutdown>>

\* NetFinish leaving the loop after the first pass (x > 0)
NetFinish_Early(u) ==
    /\ units[u].pc = "loop"
    /\ units[u].x >= 1
    /\ IF units[u].nics.present
       THEN LET r == NetReading(units[u].tx_bytes, units[u].rx_bytes, units[u].nics) IN
            /\ units' = [units EXCEPT ![u].r = r, ![u].pc = "put"]
            /\ polled_result' = [polled_result EXCEPT ![units[u].metric] = r]
       ELSE /\ units' = [units EXCEPT ![u].pc = "crashed"]
            /\ polled_result' = polled_result
    /\ UNCHANGED <<interval, result_queue, lastPoll, pushed, shutdown>>

\* the loop is over: compute r (lines 165-179) and assign polled_result;
\* nics[self.metric.nic] raises KeyError when the last snapshot lacks the nic
NetFinish(u) ==
    /\ units[u].pc = "loop"
    /\ units[u].x >= interval
    /\ IF units[u].nics.present
       THEN LET r == NetReading(units[u].tx_bytes, units[u].rx_bytes, units[u].nics) IN
            /\ units' = [units EXCEPT ![u].r = r, ![u].pc = "put"]
            /\ polled_result' = [polled_result EXCEPT ![units[u].metric] = r]
       ELSE /\ units' = [units EXCEPT ![u].pc = "crashed"]
            /\ polled_result' = polled_result
    /\ UNCHANGED <<interval, result_queue, lastPoll, pushed, shutdown>>

\* ------------------------------------------------------------ environment

\* the consumer takes the next metric object off the queue
Receive ==
    /\ result_queue # <<>>
    /\ result_queue' = Tail(result_queue)
    /\ pushed' = Tail(pushed)
    /\ UNCHANGED <<polled_result, interval, units, lastPoll, shutdown>>

\* the process-level shutdown signal is raised
Shutdown ==
    /\ ~shutdown
    /\ shutdown' = TRUE
    /\ UNCHANGED <<polled_result, interval, result_queue, units, lastPoll, pushed>>

Next ==
    \/ PollVM
    \/ PollDisk
    \/ PollCPU
    \/ PollNet
    \/ \E u \in Units : CPUMeasure(u)
    \/ \E u \in Units : NetStep(u, Snapshots)
    \/ \E u \in Units : NetFinish(u)
    \/ \E u \in Units : Put(u)
    \/ Receive

Spec == Init /\ [][Next]_vars

\* the same program with the shutdown signal arriving at any moment
NextShutdown ==
    \/ ~shutdown /\ PollCPU
    \/ ~shutdown /\ PollNet
    \/ \E u \in Units : CPUMeasure(u)
    \/ \E u \in Units : NetStep(u, Snapshots)
    \/ \E u \in Units : NetFinish(u)
    \/ \E u \in Units : Put(u)
    \/ Receive
    \/ Shutdown

SpecShutdown == Init /\ [][NextShutdown]_vars

\* the asynchronous metrics alone: polls, threads and the consumer
NextAsync ==
    \/ PollCPU
    \/ PollNet
    \/ \E u \in Units : CPUMeasure(u)
    \/ \E u \in Units : NetStep(u, Snapshots)
    \/ \E u \in Units : NetFinish(u)
    \/ \E u \in Units : Put(u)
    \/ Receive

SpecAsync == Init /\ [][NextAsync]_vars

\* the next step of thread u, whichever its position
UnitStep(u) ==
    \/ CPUMeasure(u)
    \/ NetStep(u, Snapshots)
    \/ NetFinish(u)
    \/ Put(u)

\* a started thread is scheduled again and again: its next step (the
\* blocking CPU measurement, a loop pass with its 1-second sleep, the
\* computation after the loop, the put on the unbounded queue) happens once
\* it is due; polls and the consumer are under no obligation
Fairness == \A u \in Units : WF_vars(UnitStep(u))

\* one sampling run of the network metric over a wider range of counters
InitRate ==
    /\ polled_result = [m \in Metrics |-> None]
    /\ interval \in 1..MaxRateInterval
    /\ result_queue = <<>>
    /\ units = [u \in Units |-> Unborn]
    /\ lastPoll = [m \in Metrics |-> NoPoll]
    /\ pushed = <<>>
    /\ shutdown = FALSE

NextRate ==
    \/ PollAsync("net", {1})
    \/ NetStep(1, RateSnapshots)
    \/ NetFinish(1)
    \/ Put(1)
    \/ Receive

SpecRate == InitRate /\ [][NextRate]_vars

\* one run of each thread class, the network run over every interval of
\* InitRate, with fair scheduling of the threads
NextLive ==
    \/ PollAsync("cpu", {1})
    \/ PollAsync("net", {2})
    \/ CPUMeasure(1)
    \/ NetStep(2, Snapshots)
    \/ NetFinish(2)
    \/ \E u \in {1, 2} : Put(u)
    \/ Receive

SpecLive == InitRate /\ [][NextLive]_vars /\ Fairness

\* ------------------------------------------------------------------ claims

\* C1: every background unit started by an asynchronous poll pushes its
\* metric onto the completion queue exactly once before it ends, also when
\* the interface is missing from some or all snapshots.
\* (violated: a network unit whose last snapshot lacks the nic ends on the
\* KeyError of line 172 with no push)
C1_PushExactlyOnce ==
    \A u \in Units : Ended(u) => units[u].pushes = 1

\* C2: a network unit whose interface was absent from every snapshot (zero
\* samples) still completes and delivers a Reading flagged as an error.
\* (violated: the unit ends on the KeyError, nothing is delivered)
C2_AbsentWindowDeliversError ==
    \A u \in Units :
        (units[u].metric = "net" /\ Ended(u) /\ units[u].absent = interval)
            => /\ units[u].pc = "done"
               /\ units[u].pushes = 1
               /\ "error" \in DOMAIN units[u].r

\* C3: at every moment at most one background unit is running per
\* asynchronous metric.
\* (violated: poll starts a thread unconditionally)
C3_AtMostOneUnitPerMetric ==
    \A m \in AsyncMetrics :
        Cardinality({u \in Units : units[u].metric = m /\ Running(u)}) <= 1

\* C4 as stated: poll returns true exactly when the Reading is already
\* populated on return, false exactly when the metric was dispatched.
\* (violated: the code returns True for "expect a deferred result")
C4_TrueIffPopulated ==
    \A m \in Metrics :
        lastPoll[m].ret \in {"True", "False"}
            => /\ (lastPoll[m].ret = "True") <=> lastPoll[m].populated
               /\ (lastPoll[m].ret = "False") <=> (lastPoll[m].spawned # 0)

\* C4 amended: poll returns True exactly when the call dispatched the metric
\* to a background unit (CPU, Network) and False exactly when the call itself
\* assigned the Reading before returning (VirtualMemory, DiskUsage).
C4_TrueIffDispatched ==
    \A m \in Metrics :
        lastPoll[m].ret \in {"True", "False"}
            => /\ (lastPoll[m].ret = "True")
                     <=> /\ lastPoll[m].spawned # 0
                         /\ ~lastPoll[m].assigned
                         /\ m \in AsyncMetrics
               /\ lastPoll[m].spawned # 0
                     => units[lastPoll[m].spawned].metric = m
               /\ (lastPoll[m].ret = "False")
                     <=> /\ lastPoll[m].assigned
                         /\ lastPoll[m].spawned = 0
                         /\ polled_result[m] # None
                         /\ m \in SyncMetrics

\* all four variants have been polled and have returned
C4_Witness ==
    /\ lastPoll["cpu"].ret = "True"
    /\ lastPoll["net"].ret = "True"
    /\ lastPoll["vm"].ret = "False"
    /\ lastPoll["disk"].ret = "False"

\* ---- helpers of the rate claims

Abs(n) == IF n < 0 THEN -n ELSE n

\* t tenths is a nearest one-decimal rendering of num / den
NearestTenth(t, num, den) == 2 * Abs(10 * num - t * den) <= den

NonDecreasing(s) == \A i \in 2..Len(s) : s[i] >= s[i - 1]

\* the positions where a raw sample is smaller than its predecessor
Rollovers(raw) == {i \in 2..Len(raw) : raw[i] < raw[i - 1]}

\* the unit has left the loop and built its Reading
Computed(u) == units[u].metric = "net" /\ units[u].pc \in {"put", "done"}

\* the rate fields of Reading r render the mean of the deltas of the
\* sequences ctx and crx (their telescoped sum over the count), over 125
RatesOf(r, ctx, crx) ==
    LET n == Len(ctx)
        dt == ctx[n] - ctx[1]
        dr == crx[n] - crx[1]
    IN  IF n >= 2
        THEN /\ NearestTenth(r.attrs.tx_rate, dt, (n - 1) * KbitDivisor)
             /\ NearestTenth(r.attrs.rx_rate, dr, (n - 1) * KbitDivisor)
             /\ NearestTenth(r.state, dt + dr, (n - 1) * KbitDivisor)
        ELSE r.state = NaN /\ r.attrs.tx_rate = NaN /\ r.attrs.rx_rate = NaN

\* C5: without rollover and with the interface present every second, the
\* corrected sequence equals the raw sequence, each direction's rate is the
\* mean of the consecutive raw deltas divided by 125, and the state is
\* tx_rate + rx_rate to one decimal (tx [1000,1500,2000], rx [500,600,700]
\* gives 4.0 + 0.8 = 4.8); a single sample has no delta, the mean is nan.
C5_NoRolloverRate ==
    /\ LET r == NetReading(<<1000, 1500, 2000>>, <<500, 600, 700>>,
                           [present |-> TRUE, bytes_sent |-> 2000, bytes_recv |-> 700])
       IN  r.state = 48 /\ r.attrs.tx_rate = 40 /\ r.attrs.rx_rate = 8
    /\ \A u \in Units :
          (/\ units[u].metric = "net"
           /\ units[u].absent = 0
           /\ NonDecreasing(units[u].raw_tx)
           /\ NonDecreasing(units[u].raw_rx))
             => /\ units[u].tx_bytes = units[u].raw_tx
                /\ units[u].rx_bytes = units[u].raw_rx
                /\ Computed(u) => RatesOf(units[u].r, units[u].raw_tx, units[u].raw_rx)

\* a finished run of three or more seconds, no absence, no rollover, traffic
C5_Witness ==
    \E u \in Units :
        /\ units[u].pc = "done"
        /\ units[u].absent = 0
        /\ Len(units[u].raw_tx) >= 3
        /\ NonDecreasing(units[u].raw_tx)
        /\ NonDecreasing(units[u].raw_rx)
        /\ units[u].raw_tx[1] < units[u].raw_tx[2]
        /\ units[u].raw_rx[2] < units[u].raw_rx[3]
        /\ units[u].r.state > 0

\* the corrected sequence the claim describes for one rollover at position i
OneRolloverCorrected(raw) ==
    LET i == CHOOSE k \in Rollovers(raw) : TRUE
    IN  [j \in 1..Len(raw) |-> IF j < i THEN raw[j] ELSE raw[j] + raw[i - 1]]

\* the part of C6 that does not depend on strictness
OneRolloverShape(u, raw, cor) ==
    /\ cor = OneRolloverCorrected(raw)
    /\ \A i \in Rollovers(raw) : cor[i] >= cor[i - 1]

\* C6 as stated: with exactly one rollover the corrected sequence strictly
\* increases across the rollover point, and from there on is raw + prev.
\* (violated: a counter that restarts at 0 gives prev + 0 = prev)
C6_StrictAcrossRollover ==
    \A u \in Units :
        /\ Cardinality(Rollovers(units[u].raw_tx)) = 1
              => /\ OneRolloverShape(u, units[u].raw_tx, units[u].tx_bytes)
                 /\ \A i \in Rollovers(units[u].raw_tx) :
                        units[u].tx_bytes[i] > units[u].tx_bytes[i - 1]
        /\ Cardinality(Rollovers(units[u].raw_rx)) = 1
              => /\ OneRolloverShape(u, units[u].raw_rx, units[u].rx_bytes)
                 /\ \A i \in Rollovers(units[u].raw_rx) :
                        units[u].rx_bytes[i] > units[u].rx_bytes[i - 1]

\* C6 amended: with exactly one rollover the corrected sequence does not
\* decrease across the rollover point and strictly increases there exactly
\* when the rolled-over sample v is greater than 0; from that sample on every
\* corrected value equals raw + prev, and the computed rate is the mean of
\* the deltas of that corrected sequence.
C6_NonDecreasingAcrossRollover ==
    \A u \in Units :
        /\ Cardinality(Rollovers(units[u].raw_tx)) = 1
              => /\ OneRolloverShape(u, units[u].raw_tx, units[u].tx_bytes)
                 /\ \A i \in Rollovers(units[u].raw_tx) :
                        (units[u].tx_bytes[i] > units[u].tx_bytes[i - 1])
                            <=> (units[u].raw_tx[i] > 0)
        /\ Cardinality(Rollovers(units[u].raw_rx)) = 1
              => /\ OneRolloverShape(u, units[u].raw_rx, units[u].rx_bytes)
                 /\ \A i \in Rollovers(units[u].raw_rx) :
                        (units[u].rx_bytes[i] > units[u].rx_bytes[i - 1])
                            <=> (units[u].raw_rx[i] > 0)
        /\ (/\ Computed(u)
            /\ Cardinality(Rollovers(units[u].raw_tx)) = 1
            /\ Cardinality(Rollovers(units[u].raw_rx)) = 1)
              => RatesOf(units[u].r, OneRolloverCorrected(units[u].raw_tx),
                                     OneRolloverCorrected(units[u].raw_rx))

\* a finished run with one rollover to a nonzero value in tx, followed by a
\* further sample, and one rollover in rx
C6_Witness ==
    \E u \in Units :
        /\ units[u].pc = "done"
        /\ Cardinality(Rollovers(units[u].raw_tx)) = 1
        /\ Cardinality(Rollovers(units[u].raw_rx)) = 1
        /\ \E i \in Rollovers(units[u].raw_tx) :
              units[u].raw_tx[i] > 0 /\ i < Len(units[u].raw_tx)

\* the loop of the unit is over
LoopOver(u) == units[u].metric = "net" /\ units[u].pc \in {"put", "done", "crashed"}

\* C7: for every interval N >= 1, with the interface present every second,
\* one run records exactly N samples per direction and computes the rate
\* from exactly N-1 deltas.
C7_SamplesAndDeltas ==
    \A u \in Units :
        (units[u].metric = "net" /\ units[u].absent = 0)
            => /\ Len(units[u].tx_bytes) = units[u].x
               /\ Len(units[u].rx_bytes) = units[u].x
               /\ LoopOver(u)
                    => /\ Len(units[u].tx_bytes) = interval
                       /\ Len(units[u].rx_bytes) = interval
                       /\ Len(diff(units[u].tx_bytes)) = interval - 1
                       /\ Len(diff(units[u].rx_bytes)) = interval - 1
                       /\ interval >= 2
                            => /\ average(diff(units[u].tx_bytes)).den = interval - 1
                               /\ average(diff(units[u].rx_bytes)).den = interval - 1

\* a finished run of three or more seconds with the interface always present
C7_Witness ==
    \E u \in Units :
        /\ units[u].pc = "done"
        /\ units[u].absent = 0
        /\ interval >= 3
        /\ units[u].x = interval

\* C8: when the OS query of a synchronous metric fails, poll still returns
\* normally and leaves a Reading marked invalid for this cycle.
\* (violated: the exception of psutil.disk_usage leaves poll, polled_result
\* keeps what the previous poll assigned)
C8_FailedQueryLeavesInvalidReading ==
    \A m \in SyncMetrics :
        lastPoll[m].failed
            => /\ lastPoll[m].ret \in {"True", "False"}
               /\ lastPoll[m].assigned
               /\ "error" \in DOMAIN polled_result[m]

\* C9: the Reading observed through a queue item is the one computed by the
\* unit that pushed it and never changes afterwards.
\* (violated: the item is the metric object, and a later unit of the same
\* metric assigns its polled_result)
C9_QueuedReadingUnchanged ==
    \A i \in 1..Len(result_queue) :
        polled_result[result_queue[i]] = pushed[i]

\* C10: after the shutdown signal, an in-flight unit that passes a 1-second
\* checkpoint exits without pushing.
\* (violated: the loop tests only x < interval)
C10_NoPushAfterShutdown ==
    \A u \in Units : units[u].signalled => units[u].pc \notin {"put", "done"}

\* C11: a poll of a synchronous variant (VirtualMemory, DiskUsage) that
\* returns has set the metric's Reading, has started no background unit and
\* has left the completion queue unchanged: every step that touches the
\* poll record or the Reading of a synchronous metric is such a step.
C11_SyncPollFrame ==
    [][\A m \in SyncMetrics :
          (lastPoll'[m] # lastPoll[m] \/ polled_result'[m] # polled_result[m])
             => /\ units' = units
                /\ result_queue' = result_queue
                /\ pushed' = pushed
                /\ lastPoll'[m].spawned = 0
                /\ lastPoll'[m].ret = "False"
                     => /\ polled_result'[m] # None
                        /\ polled_result'[m].kind = "Reading"
                        /\ lastPoll'[m].assigned
                        /\ lastPoll'[m].populated]_vars

\* both synchronous metrics have been polled and hold their Reading while a
\* background unit runs and another metric waits on the queue
C11_Witness ==
    /\ lastPoll["vm"].ret = "False"
    /\ lastPoll["disk"].ret = "False"
    /\ polled_result["vm"] = PercentReading(423)
    /\ polled_result["disk"] = PercentReading(423)
    /\ result_queue # <<>>
    /\ \E u \in Units : Running(u)

\* C12: within one sampling run, whatever the raw samples do (any number of
\* rollovers, any absent seconds), the recorded corrected values are
\* non-decreasing, separately for tx and rx, so every delta is >= 0.
C12_CorrectedMonotonic ==
    \A u \in Units :
        /\ NonDecreasing(units[u].tx_bytes)
        /\ NonDecreasing(units[u].rx_bytes)
        /\ \A i \in DOMAIN diff(units[u].tx_bytes) : diff(units[u].tx_bytes)[i] >= 0
        /\ \A i \in DOMAIN diff(units[u].rx_bytes) : diff(units[u].rx_bytes)[i] >= 0

\* a finished run whose raw tx counter rolled over twice and whose raw rx
\* counter rolled over once
C12_Witness ==
    \E u \in Units :
        /\ units[u].pc = "done"
        /\ Cardinality(Rollovers(units[u].raw_tx)) >= 2
        /\ Cardinality(Rollovers(units[u].raw_rx)) = 1
        /\ units[u].tx_bytes[Len(units[u].tx_bytes)] > units[u].tx_bytes[1]

\* the base the rollover rule has accumulated after the first j raw samples
RECURSIVE BaseUpTo(_, _)
BaseUpTo(raw, j) ==
    IF j <= 1 THEN 0
    ELSE BaseUpTo(raw, j - 1) + (IF raw[j] < raw[j - 1] THEN raw[j - 1] ELSE 0)

\* the corrected sequence of a sequence of raw samples taken on its own
CorrectedOf(raw) == [j \in 1..Len(raw) |-> BaseUpTo(raw, j) + raw[j]]

Max(a, b) == IF a >= b THEN a ELSE b

\* C13: in a second where the interface is absent no sample is appended and
\* prev and base stay unchanged; the recorded samples are those of the
\* present seconds alone, k present seconds out of N give k samples and
\* max(k-1, 0) deltas, and the rate is the mean of the deltas between
\* consecutive recorded samples.
C13_AbsentSecondSkipped ==
    [][\A u \in Units :
          /\ (units[u].pc = "loop" /\ units'[u].absent # units[u].absent)
                => /\ units'[u].absent = units[u].absent + 1
                   /\ units'[u].x = units[u].x + 1
                   /\ units'[u].tx_bytes = units[u].tx_bytes
                   /\ units'[u].rx_bytes = units[u].rx_bytes
                   /\ units'[u].prev_tx = units[u].prev_tx
                   /\ units'[u].prev_rx = units[u].prev_rx
                   /\ units'[u].base_tx = units[u].base_tx
                   /\ units'[u].base_rx = units[u].base_rx
          /\ units'[u].metric = "net"
                => /\ Len(units'[u].tx_bytes) = units'[u].x - units'[u].absent
                   /\ Len(units'[u].rx_bytes) = units'[u].x - units'[u].absent
                   /\ units'[u].tx_bytes = CorrectedOf(units'[u].raw_tx)
                   /\ units'[u].rx_bytes = CorrectedOf(units'[u].raw_rx)
          /\ LoopOver(u)'
                => /\ Len(units'[u].tx_bytes) = interval - units'[u].absent
                   /\ Len(diff(units'[u].tx_bytes))
                        = Max(interval - units'[u].absent - 1, 0)
                   /\ Len(diff(units'[u].rx_bytes))
                        = Max(interval - units'[u].absent - 1, 0)
          /\ Computed(u)'
                => RatesOf(units'[u].r, units'[u].tx_bytes, units'[u].rx_bytes)]_vars

\* a finished run of three seconds with one absent second, two recorded
\* samples and traffic between them
C13_Witness ==
    \E u \in Units :
        /\ units[u].pc = "done"
        /\ interval = 3
        /\ units[u].absent = 1
        /\ Len(units[u].tx_bytes) = 2
        /\ units[u].r.state > 0

\* C14: every background unit terminates on its own: the network loop makes
\* exactly interval passes (one OS read each) and then ends, for every
\* interval and every behaviour of the counters, whether or not the consumer
\* drains the queue.
C14_UnitsTerminate ==
    /\ [](\A u \in Units :
            /\ units[u].x <= interval
            /\ units[u].x = Len(units[u].raw_tx) + units[u].absent
            /\ LoopOver(u) => units[u].x = interval)
    /\ \A u \in Units : (units[u].pc # "unborn") ~> Ended(u)

\* both threads have ended, the network thread after three passes, and
\* nothing has been taken off the queue
C14_Witness ==
    /\ \A u \in {1, 2} : Ended(u)
    /\ \E u \in Units : units[u].metric = "net" /\ units[u].x = 3
    /\ \E u \in Units : units[u].metric = "cpu"
    /\ Len(result_queue) = Cardinality({u \in Units : units[u].pc = "done"})
    /\ result_queue # <<>>

\* the latest network run started before thread v, 0 if there is none
PreviousNetRun(v) ==
    LET before == {u \in Units : u < v /\ units[u].metric = "net"}
    IN  IF before = {} THEN 0 ELSE CHOOSE u \in before : \A w \in before : w <= u

\* thread v is being started on the network metric by this step
StartsNetRun(v) == units[v].pc = "unborn" /\ units'[v].metric = "net"

\* C15 as stated: the rollover state persists across polls: the values left
\* by one sampling run are the values the next run of the metric starts from.
\* (violated: prev and base are locals of run(), set to 0 by line 146)
C15_RolloverStatePersists ==
    [][\A v \in Units :
          (StartsNetRun(v) /\ PreviousNetRun(v) # 0 /\ Ended(PreviousNetRun(v)))
             => LET u == PreviousNetRun(v)
                IN  /\ units'[v].prev_tx = units[u].prev_tx
                    /\ units'[v].prev_rx = units[u].prev_rx
                    /\ units'[v].base_tx = units[u].base_tx
                    /\ units'[v].base_rx = units[u].base_rx]_vars

\* C15 amended: the rollover state is created anew, all zero, at the start
\* of every sampling run and lives only for that run: whatever the previous
\* run left, a run starts from prev = base = 0 with no samples, so its first
\* recorded sample is the raw value itself.
C15_RolloverStatePerRun ==
    [][\A v \in Units :
          /\ StartsNetRun(v)
                => /\ units'[v].prev_tx = 0 /\ units'[v].prev_rx = 0
                   /\ units'[v].base_tx = 0 /\ units'[v].base_rx = 0
                   /\ units'[v].tx_bytes = <<>> /\ units'[v].rx_bytes = <<>>
                   /\ units'[v].x = 0
          /\ (units'[v].metric = "net" /\ units'[v].tx_bytes # <<>>)
                => /\ units'[v].tx_bytes[1] = units'[v].raw_tx[1]
                   /\ units'[v].rx_bytes[1] = units'[v].raw_rx[1]]_vars

\* a second run of the network metric has recorded a sample after the first
\* run ended leaving a nonzero last raw value and a nonzero base
C15_Witness ==
    \E u, v \in Units :
        /\ u < v
        /\ units[u].metric = "net" /\ units[v].metric = "net"
        /\ Ended(u)
        /\ units[u].prev_tx > 0
        /\ units[u].base_rx > 0
        /\ Len(units[v].tx_bytes) = 1
        /\ units[v].raw_tx[1] < units[u].prev_tx

Last(q) == q[Len(q)]

\* the Reading r is the one a network run computes from the raw samples
\* raw_tx, raw_rx taken on their own
ReadingAlone(r, raw_tx, raw_rx) ==
    /\ r.kind = "Reading"
    /\ RatesOf(r, CorrectedOf(raw_tx), CorrectedOf(raw_rx))
    /\ r.attrs.bytes_sent = Last(raw_tx)
    /\ r.attrs.bytes_recv = Last(raw_rx)

\* C16: a step of one background unit changes only that unit's own locals,
\* its own metric's Reading and the shared queue; with several units (CPU
\* and network, or several of one metric) sampling concurrently, the Reading
\* a unit stores is the one its own samples give when taken alone; a
\* rollover in one direction leaves the other direction's base unchanged
\* and its new sample uncorrected by it.
C16_RunsIndependent ==
    [][\A u \in Units :
          units'[u] # units[u]
            => /\ \A v \in Units \ {u} : units'[v] = units[v]
               /\ \A m \in Metrics \ {units'[u].metric} :
                     polled_result'[m] = polled_result[m]
               /\ polled_result' # polled_result
                     => polled_result'[units'[u].metric] = units'[u].r
               /\ result_queue' # result_queue
                     => result_queue' = Append(result_queue, units[u].metric)
               /\ (units'[u].metric = "net" /\ units'[u].r # units[u].r)
                     => ReadingAlone(units'[u].r, units'[u].raw_tx, units'[u].raw_rx)
               /\ (units'[u].metric = "cpu" /\ units'[u].r # units[u].r)
                     => units'[u].r.state = 1000 - units'[u].r.attrs.idle
               /\ (units'[u].base_tx # units[u].base_tx
                        /\ Last(units'[u].raw_rx) >= units[u].prev_rx)
                     => /\ units'[u].base_rx = units[u].base_rx
                        /\ units'[u].rx_bytes = Append(units[u].rx_bytes,
                               units[u].base_rx + Last(units'[u].raw_rx))
               /\ (units'[u].base_rx # units[u].base_rx
                        /\ Last(units'[u].raw_tx) >= units[u].prev_tx)
                     => /\ units'[u].base_tx = units[u].base_tx
                        /\ units'[u].tx_bytes = Append(units[u].tx_bytes,
                               units[u].base_tx + Last(units'[u].raw_tx))]_vars

\* a CPU run and a network run have both finished and stored their
\* Readings; the network run saw a tx rollover and no rx rollover
C16_Witness ==
    \E u, v \in Units :
        /\ units[u].metric = "net" /\ units[u].pc = "done"
        /\ units[v].metric = "cpu" /\ units[v].pc = "done"
        /\ Rollovers(units[u].raw_tx) # {}
        /\ Rollovers(units[u].raw_rx) = {}
        /\ units[u].base_tx > 0
        /\ units[u].base_rx = 0
        /\ polled_result["net"] = units[u].r
        /\ polled_result["cpu"] = units[v].r

\* C17: for every allowed interval (1 included) with the interface present
\* every second, the delivered state is a defined finite rate, never one
\* formatted from an undefined mean.
\* (violated: interval = 1 records one sample, the mean of zero deltas is
\* nan and "nan" is formatted and delivered)
C17_StateDefined ==
    \A u \in Units :
        (Computed(u) /\ units[u].absent = 0)
            => /\ units[u].r.state # NaN
               /\ units[u].r.attrs.tx_rate # NaN
               /\ units[u].r.attrs.rx_rate # NaN

\* C18: every metric object on the completion queue has a populated
\* Reading: polled_result is not None and holds both "state" and "attrs".
C18_QueuedMetricHasReading ==
    /\ Len(pushed) = Len(result_queue)
    /\ \A i \in 1..Len(result_queue) :
          /\ polled_result[result_queue[i]] # None
          /\ {"state", "attrs"} \subseteq DOMAIN polled_result[result_queue[i]]
          /\ pushed[i] # None
    /\ \A u \in Units :
          units[u].pc \in {"put", "done"}
             => /\ units[u].r # None
                /\ polled_result[units[u].metric] # None

\* a CPU metric and a network metric wait on the queue with their Readings
C18_Witness ==
    /\ Len(result_queue) >= 2
    /\ \E i, j \in 1..Len(result_queue) :
          result_queue[i] = "cpu" /\ result_queue[j] = "net"
    /\ polled_result["cpu"].kind = "Reading"
    /\ polled_result["net"].kind = "Reading"

====
